---- MODULE Spec2Model ----
(***************************************************************************)
(* Model of the name matching of app_pec_assinaturas.py: normalize_name,   *)
(* parse_assinantes, build_index, apply_aliases, match_assinantes and      *)
(* make_df_nao_assinou, and of the retries of requests_get_json.           *)
(*                                                                         *)
(* A Python str is a sequence of characters.  A character is a one-letter  *)
(* string for an ASCII code point and the string "U+XXXX" for a code point *)
(* outside ASCII.  Chars("Bia") is <<"B", "i", "a">>.                      *)
(***************************************************************************)
EXTENDS Integers, Sequences, FiniteSets, TLC

VARIABLES
    assinantes_text,   \* the lines of the pasted text (raw.splitlines())
    deps,              \* the roster: a sequence of Dep records [id, nome]
    pc,                \* position in the module-level flow
    assinantes_list,   \* parse_assinantes(assinantes_text)
    assinantes_raw,    \* match_assinantes: the list after apply_aliases
    idx,               \* match_assinantes: build_index(deps)
    i,                 \* match_assinantes: index of the next signer
    n,                 \* match_assinantes: the signer of the last iteration
    dep,               \* match_assinantes: the Dep it resolved to, or None
    found,             \* match_assinantes: Deps credited so far
    nao_encontrados,   \* match_assinantes: unmatched signers
    seen_dep_ids,      \* match_assinantes: ids already credited
    df_assinou,        \* the matched table returned, sorted by Nome
    df_nao_assinou,    \* the not-signed table, sorted by Nome
    total_api,         \* len(deps)
    assinou_n,         \* the number of rows of df_assinou
    nao_assinou_n,     \* total_api - assinou_n
    s,                 \* normalize_name: its argument
    r,                 \* normalize_name: its result, or Pending
    r2,                \* normalize_name of that result, or Pending
    attempt,           \* requests_get_json: the loop variable
    last_err,          \* requests_get_json: the last exception caught
    calls,             \* requests_get_json: its requests.get and time.sleep
    data,              \* what requests_get_json returned, or NoData
    raised             \* what requests_get_json raised, or NoError

vars == <<assinantes_text, deps, pc, assinantes_list, assinantes_raw, idx, i,
          n, dep, found, nao_encontrados, seen_dep_ids, df_assinou,
          df_nao_assinou, total_api, assinou_n, nao_assinou_n, s, r, r2,
          attempt, last_err, calls, data, raised>>

matchVars == <<assinantes_text, deps, pc, assinantes_list, assinantes_raw,
               idx, i, n, dep, found, nao_encontrados, seen_dep_ids,
               df_assinou>>

painelVars == <<df_nao_assinou, total_api, assinou_n, nao_assinou_n>>

normVars == <<s, r, r2>>

httpVars == <<attempt, last_err, calls, data, raised>>

-----------------------------------------------------------------------------
(* Characters and strings *)

\* the sequence f as a tuple: TLC evaluates [j \in 1..m |-> e] anew each time
\* it is applied, and a tuple once
Tuple(f) == SubSeq(f, 1, Len(f))

Chars(str) == Tuple([j \in 1..Len(str) |-> SubSeq(str, j, j)])

Range(f) == {f[x] : x \in DOMAIN f}

\* Python's None where a str is expected, None where a Dep is expected, and
\* the value of a result not computed yet
None == <<"None">>
NoDep == [none |-> TRUE]
Pending == <<"Pending">>

\* no payload returned yet
NoData == [none |-> TRUE]

\* Python's None where an exception may stand
NoError == "None"

UpperCase == Chars("ABCDEFGHIJKLMNOPQRSTUVWXYZ")
LowerCase == Chars("abcdefghijklmnopqrstuvwxyz")
Digits == Chars("0123456789")

\* The code points of the model, in code point order.  U+00C1 and U+00E1 are
\* A and a with an acute accent, U+0301 the combining acute accent, U+2019 the
\* right single quotation mark, U+201C the left double quotation mark.
CodePoints ==
    <<"\t", " ", "\"", "'", "(", ")", "-", ".">> \o Digits \o UpperCase
    \o LowerCase \o <<"U+00C1", "U+00E1", "U+0301", "U+2019", "U+201C">>

Ord(c) == CHOOSE j \in 1..Len(CodePoints) : CodePoints[j] = c

\* str.isspace / the regex class \s
IsSpace(c) == c \in {" ", "\t"}

\* unicodedata.combining(ch) # 0
Combining(c) == c = "U+0301"

\* unicodedata.normalize("NFKD", ch) of one character
NFKD(c) ==
    CASE c = "U+00C1" -> <<"A", "U+0301">>
      [] c = "U+00E1" -> <<"a", "U+0301">>
      [] OTHER -> <<c>>

\* str.lower of one character: the characters it changes
RECURSIVE LowerPairs(_)
LowerPairs(j) ==
    IF j = 0 THEN "U+00C1" :> "U+00E1"
    ELSE (UpperCase[j] :> LowerCase[j]) @@ LowerPairs(j - 1)

LowerTable == LowerPairs(26)

Lower(c) == IF c \in DOMAIN LowerTable THEN LowerTable[c] ELSE c

\* unicodedata.normalize("NFKD", str)
decompose(str) ==
    LET g[j \in 0..Len(str)] ==
            IF j = 0 THEN <<>> ELSE g[j - 1] \o NFKD(str[j])
    IN g[Len(str)]

\* str.lstrip(), str.rstrip() and str.strip()
RECURSIVE lstrip(_)
lstrip(str) ==
    IF str # <<>> /\ IsSpace(Head(str)) THEN lstrip(Tail(str)) ELSE str

RECURSIVE rstrip(_)
rstrip(str) ==
    IF str # <<>> /\ IsSpace(str[Len(str)])
    THEN rstrip(SubSeq(str, 1, Len(str) - 1))
    ELSE str

strip(str) == rstrip(lstrip(str))

\* re.sub(r"\s+", " ", str): a run of whitespace becomes one space
sub_spaces(str) ==
    LET first == SelectSeq([j \in 1..Len(str) |-> j],
                           LAMBDA j : ~IsSpace(str[j]) \/ j = 1 \/ ~IsSpace(str[j - 1]))
    IN Tuple([j \in 1..Len(first) |->
                IF IsSpace(str[first[j]]) THEN " " ELSE str[first[j]]])

\* .replace(U+2019, "'").replace(U+201C, '"').replace(U+201D, '"')
replace_quotes(str) ==
    Tuple([j \in 1..Len(str) |->
              CASE str[j] = "U+2019" -> "'"
                [] str[j] = "U+201C" -> "\""
                [] OTHER -> str[j]])

_strip_accents(str) ==
    SelectSeq(decompose(str), LAMBDA ch : ~Combining(ch))

lower(str) == Tuple([j \in 1..Len(str) |-> Lower(str[j])])

\* the regex class [a-z0-9\s]
KeptChars == Range(LowerCase) \cup Range(Digits) \cup {" ", "\t"}

IsKept(c) == c \in KeptChars

\* re.sub(r"[^a-z0-9\s]", " ", str): a space where the code has nothing
sub_other_by_space(str) ==
    Tuple([j \in 1..Len(str) |-> IF IsKept(str[j]) THEN str[j] ELSE " "])

\* re.sub(r"[^a-z0-9\s]", "", str)
sub_other(str) == SelectSeq(str, IsKept)

\* normalize_name without its last line, the second sweep of the whitespace
normalize_name_one_sweep(str) ==
    LET s1 == strip(IF str = None THEN <<>> ELSE str)
        s2 == sub_spaces(s1)
        s3 == replace_quotes(s2)
        s4 == lower(_strip_accents(s3))
    IN sub_other(s4)

normalize_name(str) ==
    LET s1 == strip(IF str = None THEN <<>> ELSE str)
        s2 == sub_spaces(s1)
        s3 == replace_quotes(s2)
        s4 == lower(_strip_accents(s3))
        s5 == sub_other(s4)
    IN strip(sub_spaces(s5))

-----------------------------------------------------------------------------
(* Configuration tables *)

\* ALIASES_OFICIAIS: normalized spelling -> official spelling
ALIASES_OFICIAIS ==
    LET benes == Chars("benes leocadio")
        gilvan == Chars("gilvan da federal")
        rodrigo == Chars("rodrigo estacho")
    IN [k \in {benes, gilvan, rodrigo} |->
          CASE k = benes -> Chars("Benes Leoc") \o <<"U+00E1">> \o Chars("dio")
            [] k = gilvan -> Chars("Gilvan da Federal")
            [] k = rodrigo -> Chars("Rodrigo Estacho")]

\* STOPWORDS_LINHAS: the lines that are not names
STOPWORDS_LINHAS ==
    {Chars("coautoria deputado(s)"), Chars("coautoria deputados"),
     Chars("subscritor"), Chars("subscritores"), Chars("assinaturas"),
     Chars("assinaram"), Chars("assinou")}

\* the alternatives of the title pattern of match_assinantes, in its order
TITLES ==
    <<Chars("dep"), Chars("deputado"), Chars("dra"), Chars("dr"),
      Chars("delegado"), Chars("coronel"), Chars("capitao"), Chars("pr"),
      Chars("pastor"), Chars("general"), Chars("sargento")>>

-----------------------------------------------------------------------------
(* parse_assinantes *)

\* a first loop without its test of STOPWORDS_LINHAS
filter_lines_no_stop(lines) ==
    LET keep(ln) == ln # <<>> /\ normalize_name(ln) # <<>>
    IN SelectSeq(Tuple([j \in 1..Len(lines) |-> strip(lines[j])]), keep)

\* the first loop: the stripped lines that are neither empty nor stop lines
filter_lines(lines) ==
    LET keep(ln) == LET ln_norm == normalize_name(ln)
                    IN ln # <<>> /\ ln_norm # <<>> /\ ln_norm \notin STOPWORDS_LINHAS
    IN SelectSeq(Tuple([j \in 1..Len(lines) |-> strip(lines[j])]), keep)

\* a second loop that keeps the last line of each normalized spelling
dedup_lines_keep_last(lines) ==
    LET later(j) == \E h \in (j + 1)..Len(lines) :
                        normalize_name(lines[h]) = normalize_name(lines[j])
        kept == SelectSeq([j \in 1..Len(lines) |-> j], LAMBDA j : ~later(j))
    IN Tuple([a \in 1..Len(kept) |-> strip(lines[kept[a]])])

\* the second loop: the first line of each normalized spelling
dedup_lines(lines) ==
    LET g[j \in 0..Len(lines)] ==
            IF j = 0 THEN [seen |-> {}, out |-> <<>>]
            ELSE LET k == normalize_name(lines[j])
                 IN IF k \in g[j - 1].seen THEN g[j - 1]
                    ELSE [seen |-> g[j - 1].seen \cup {k},
                          out |-> Append(g[j - 1].out, strip(lines[j]))]
    IN g[Len(lines)].out

parse_assinantes(lines) == dedup_lines(filter_lines(lines))

-----------------------------------------------------------------------------
(* build_index, apply_aliases and the lookups of match_assinantes *)

\* Dep.key
key(d) == normalize_name(d.nome)

\* idx[dep.key] = dep for each dep in turn: a later dep replaces an earlier one
build_index(ds) ==
    LET g[j \in 0..Len(ds)] ==
            IF j = 0 THEN <<>>
            ELSE LET kj == key(ds[j])
                 IN [k \in DOMAIN g[j - 1] \cup {kj} |->
                       IF k = kj THEN ds[j] ELSE g[j - 1][k]]
    IN g[Len(ds)]

\* a lookup that takes a key k is the beginning of for k
get_startswith(index, k) ==
    LET starts == {kk \in DOMAIN index :
                      Len(kk) >= Len(k) /\ SubSeq(kk, 1, Len(k)) = k}
    IN IF starts # {} THEN index[CHOOSE kk \in starts : TRUE] ELSE NoDep

\* idx.get(k)
get(index, k) == IF k \in DOMAIN index THEN index[k] ELSE NoDep

apply_aliases(names) ==
    Tuple([j \in 1..Len(names) |->
              LET k == normalize_name(names[j])
              IN IF k \in DOMAIN ALIASES_OFICIAIS THEN ALIASES_OFICIAIS[k]
                 ELSE names[j]])

\* whether str is t followed by at least one whitespace character
StartsWithTitle(str, t) ==
    /\ Len(str) > Len(t)
    /\ SubSeq(str, 1, Len(t)) = t
    /\ IsSpace(str[Len(t) + 1])

\* re.sub(r"^(dep|deputado|...|sargento)\s+", "", k).strip(): the one match
\* at the start of k, with the whitespace after it, is removed
strip_title(k) ==
    IF \E j \in 1..Len(TITLES) : StartsWithTitle(k, TITLES[j])
    THEN LET j == CHOOSE j \in 1..Len(TITLES) :
                    /\ StartsWithTitle(k, TITLES[j])
                    /\ \A h \in 1..(j - 1) : ~StartsWithTitle(k, TITLES[h])
             rest == SubSeq(k, Len(TITLES[j]) + 1, Len(k))
             spaces == {h \in 1..Len(rest) : \A m \in 1..h : IsSpace(rest[m])}
         IN strip(SubSeq(rest, Cardinality(spaces) + 1, Len(rest)))
    ELSE strip(k)

\* the lookup of one signer: idx.get(k), then idx.get(k2)
lookup(index, k) ==
    IF get(index, k) # NoDep THEN get(index, k)
    ELSE get(index, strip_title(k))

\* a loop that never finds an id in seen_dep_ids
never_credited(d, seen) == FALSE

\* dep.id in seen_dep_ids
already_credited(d, seen) == d.id \in seen

\* str1 < str2 in Python's order of strings
Less(str1, str2) ==
    \E j \in 1..(Len(str1) + 1) :
        /\ j <= Len(str2)
        /\ \A h \in 1..(j - 1) : str1[h] = str2[h]
        /\ j = Len(str1) + 1 \/ Ord(str1[j]) < Ord(str2[j])

\* df.sort_values(["Nome"]): the orders of rows that are ascending by Nome
sort_values(rows) ==
    {sorted \in [1..Len(rows) -> Range(rows)] :
        /\ \E p \in [1..Len(rows) -> 1..Len(rows)] :
              /\ \A a, b \in 1..Len(rows) : a # b => p[a] # p[b]
              /\ \A a \in 1..Len(rows) : sorted[a] = rows[p[a]]
        /\ \A a \in 1..(Len(rows) - 1) : ~Less(sorted[a + 1].nome, sorted[a].nome)}

-----------------------------------------------------------------------------
(* Inputs *)

MaxLines == 2
MaxDeps == 2
MaxLen == 3

SeqsUpTo(S, max) == UNION {[1..m -> S] : m \in 0..max}

\* lines a pasted list can hold
Lines ==
    {Chars("Bia Kicis"),
     Chars(" Bi") \o <<"U+00C1">> \o Chars("  KICIS"),
     Chars("Dr. Bia Kicis"),
     Chars("Dr Pr Bia Kicis"),
     Chars("Bia"),
     Chars("BENES LEOCADIO"),
     Chars("Coautoria Deputado(s)"),
     Chars(" \t")}

\* deputies the roster can hold
Deps ==
    {[id |-> 1, nome |-> Chars("Bia Kicis")],
     [id |-> 2, nome |-> Chars("BIA KICIS")],
     [id |-> 1, nome |-> Chars("Dr Bia Kicis")]}

\* characters of the arguments of normalize_name
Alphabet == {"a", "B", "7", " ", "\t", ".", "U+00C1", "U+0301", "U+2019"}

-----------------------------------------------------------------------------
(* The module-level flow: parse_assinantes, then match_assinantes *)

Idle ==
    /\ assinantes_list = <<>>
    /\ assinantes_raw = <<>>
    /\ idx = <<>>
    /\ i = 0
    /\ n = None
    /\ dep = NoDep
    /\ found = <<>>
    /\ nao_encontrados = <<>>
    /\ seen_dep_ids = {}
    /\ df_assinou = <<>>
    /\ df_nao_assinou = <<>>
    /\ total_api = 0
    /\ assinou_n = 0
    /\ nao_assinou_n = 0

\* normalize_name is not running
NormIdle ==
    /\ s = None
    /\ r = Pending
    /\ r2 = Pending

\* requests_get_json is not running
HttpIdle ==
    /\ attempt = 0
    /\ last_err = NoError
    /\ calls = <<>>
    /\ data = NoData
    /\ raised = NoError

Init ==
    /\ assinantes_text \in SeqsUpTo(Lines, MaxLines)
    /\ deps \in SeqsUpTo(Deps, MaxDeps)
    /\ pc = "parse_assinantes"
    /\ Idle
    /\ NormIdle
    /\ HttpIdle

\* assinantes_list = parse_assinantes(assinantes_text)
ParseAssinantes ==
    /\ pc = "parse_assinantes"
    /\ assinantes_list' = parse_assinantes(assinantes_text)
    /\ pc' = "match_assinantes"
    /\ UNCHANGED <<assinantes_text, deps, assinantes_raw, idx, i, n, dep, found,
                   nao_encontrados, seen_dep_ids, df_assinou, painelVars,
                   normVars, httpVars>>

\* match_assinantes up to its loop
MatchBegin ==
    /\ pc = "match_assinantes"
    /\ idx' = build_index(deps)
    /\ assinantes_raw' = apply_aliases(assinantes_list)
    /\ found' = <<>>
    /\ nao_encontrados' = <<>>
    /\ seen_dep_ids' = {}
    /\ i' = 1
    /\ pc' = "loop"
    /\ UNCHANGED <<assinantes_text, deps, assinantes_list, n, dep, df_assinou,
                   painelVars, normVars, httpVars>>

\* one iteration of the loop of match_assinantes
MatchIter ==
    /\ pc = "loop"
    /\ i <= Len(assinantes_raw)
    /\ n' = assinantes_raw[i]
    /\ i' = i + 1
    /\ LET k == normalize_name(assinantes_raw[i])
           d == lookup(idx, k)
       IN IF k = <<>>
          THEN UNCHANGED <<dep, found, nao_encontrados, seen_dep_ids>>
          ELSE /\ dep' = d
               /\ IF d = NoDep
                  THEN /\ nao_encontrados' = Append(nao_encontrados, assinantes_raw[i])
                       /\ UNCHANGED <<found, seen_dep_ids>>
                  ELSE IF already_credited(d, seen_dep_ids)
                  THEN UNCHANGED <<found, nao_encontrados, seen_dep_ids>>
                  ELSE /\ seen_dep_ids' = seen_dep_ids \cup {d.id}
                       /\ found' = Append(found, d)
                       /\ UNCHANGED nao_encontrados
    /\ UNCHANGED <<assinantes_text, deps, pc, assinantes_list, assinantes_raw,
                   idx, df_assinou, painelVars, normVars, httpVars>>

\* the end of match_assinantes: the table of the found, sorted by Nome
MatchReturn ==
    /\ pc = "loop"
    /\ i > Len(assinantes_raw)
    /\ df_assinou' \in sort_values(found)
    /\ pc' = "matched"
    /\ UNCHANGED <<assinantes_text, deps, assinantes_list, assinantes_raw, idx,
                   i, n, dep, found, nao_encontrados, seen_dep_ids, painelVars,
                   normVars, httpVars>>

\* a table of the whole roster: no row is left out
make_df_all(ds, df) == sort_values(ds)

\* make_df_nao_assinou: the rows of the roster whose id is not in the ID
\* column of df, in the orders that are ascending by Nome
make_df_nao_assinou(ds, df) ==
    LET assinou_ids == {df[a].id : a \in 1..Len(df)}
    IN sort_values(SelectSeq(ds, LAMBDA d : d.id \notin assinou_ids))

\* df_nao_assinou = make_df_nao_assinou(deps, df_assinou) and the counts
MakeNaoAssinou ==
    /\ pc = "matched"
    /\ df_nao_assinou' \in make_df_nao_assinou(deps, df_assinou)
    /\ total_api' = Len(deps)
    /\ assinou_n' = Len(df_assinou)
    /\ nao_assinou_n' = Len(deps) - Len(df_assinou)
    /\ pc' = "counted"
    /\ UNCHANGED <<assinantes_text, deps, assinantes_list, assinantes_raw, idx,
                   i, n, dep, found, nao_encontrados, seen_dep_ids, df_assinou,
                   normVars, httpVars>>

Next ==
    ParseAssinantes \/ MatchBegin \/ MatchIter \/ MatchReturn \/ MakeNaoAssinou

Spec == Init /\ [][Next]_vars

-----------------------------------------------------------------------------
(* normalize_name applied to one string *)

InitNorm ==
    /\ assinantes_text = <<>>
    /\ deps = <<>>
    /\ pc = "normalize_name"
    /\ Idle
    /\ s \in SeqsUpTo(Alphabet, MaxLen)
            \cup {None, Chars("Dr.Frederico"), Chars("Deputado(s)")}
    /\ r = Pending
    /\ r2 = Pending
    /\ HttpIdle

NormalizeName ==
    /\ pc = "normalize_name"
    /\ r = Pending
    /\ r' = normalize_name(s)
    /\ UNCHANGED <<matchVars, painelVars, httpVars, s, r2>>

\* normalize_name applied to its own result
NormalizeAgain ==
    /\ pc = "normalize_name"
    /\ r # Pending
    /\ r2 = Pending
    /\ r2' = normalize_name(r)
    /\ UNCHANGED <<matchVars, painelVars, httpVars, s, r>>

NextNorm == NormalizeName \/ NormalizeAgain

SpecNorm == InitNorm /\ [][NextNorm]_vars

-----------------------------------------------------------------------------
(* requests_get_json: one call *)

\* range(3): the attempts of one call
Attempts == 3

\* 0.6, the factor of the back-off, in tenths of a second
BackoffTenths == 6

\* what the try block can raise: requests.get (ConnectionError, Timeout),
\* r.raise_for_status() (HTTPError) and r.json() (JSONDecodeError)
Errors == {"ConnectionError", "Timeout", "HTTPError", "JSONDecodeError"}

\* what r.json() can return
Payloads ==
    {[dados |-> <<>>],
     [dados |-> <<[id |-> 1, nome |-> Chars("Bia Kicis")]>>]}

\* a call of requests.get that raised e, or returned the payload p
Get(e, p) == [fn |-> "requests.get", err |-> e, json |-> p, tenths |-> 0]

\* a call of time.sleep, of t tenths of a second
SleepCall(t) ==
    [fn |-> "time.sleep", err |-> NoError, json |-> NoData, tenths |-> t]

\* 0.6 * (attempt + 1), in tenths of a second
backoff(a) == BackoffTenths * (a + 1)

\* a loop over range(4)
one_more_attempt(a) == a + 1 < Attempts + 1

\* range(3) has a value after a
more_attempts(a) == a + 1 < Attempts

InitHttp ==
    /\ assinantes_text = <<>>
    /\ deps = <<>>
    /\ pc = "requests.get"
    /\ Idle
    /\ NormIdle
    /\ HttpIdle

\* the try block runs to its end: return r.json()
GetReturns ==
    /\ pc = "requests.get"
    /\ \E p \in Payloads :
          /\ calls' = Append(calls, Get(NoError, p))
          /\ data' = p
    /\ pc' = "returned"
    /\ UNCHANGED <<assinantes_text, deps, assinantes_list, assinantes_raw,
                   idx, i, n, dep, found, nao_encontrados, seen_dep_ids,
                   df_assinou, painelVars, normVars, attempt, last_err,
                   raised>>

\* a line of the try block raises: last_err = e
GetRaises ==
    /\ pc = "requests.get"
    /\ \E e \in Errors :
          /\ calls' = Append(calls, Get(e, NoData))
          /\ last_err' = e
    /\ pc' = "time.sleep"
    /\ UNCHANGED <<assinantes_text, deps, assinantes_list, assinantes_raw,
                   idx, i, n, dep, found, nao_encontrados, seen_dep_ids,
                   df_assinou, painelVars, normVars, attempt, data, raised>>

\* time.sleep(0.6 * (attempt + 1)), then the next value of the for loop
Sleep ==
    /\ pc = "time.sleep"
    /\ calls' = Append(calls, SleepCall(backoff(attempt)))
    /\ IF more_attempts(attempt)
       THEN /\ attempt' = attempt + 1
            /\ pc' = "requests.get"
       ELSE /\ pc' = "raise"
            /\ UNCHANGED attempt
    /\ UNCHANGED <<assinantes_text, deps, assinantes_list, assinantes_raw,
                   idx, i, n, dep, found, nao_encontrados, seen_dep_ids,
                   df_assinou, painelVars, normVars, last_err, data, raised>>

\* raise RuntimeError(f"Falha ao acessar API da Camara: {last_err}")
Raise ==
    /\ pc = "raise"
    /\ raised' = "RuntimeError: Falha ao acessar API da Camara: " \o last_err
    /\ pc' = "raised"
    /\ UNCHANGED <<assinantes_text, deps, assinantes_list, assinantes_raw,
                   idx, i, n, dep, found, nao_encontrados, seen_dep_ids,
                   df_assinou, painelVars, normVars, attempt, last_err, calls,
                   data>>

NextHttp == GetReturns \/ GetRaises \/ Sleep \/ Raise

\* the call runs in one thread, requests.get has a timeout and time.sleep
\* ends: a step that can be taken is taken
SpecHttp == InitHttp /\ [][NextHttp]_vars /\ WF_vars(NextHttp)

-----------------------------------------------------------------------------
(* The keys of the specification: StrictKey, LooseKey, final stripped token *)

\* the linking words the tokenizer drops
STOPWORDS ==
    {Chars("de"), Chars("da"), Chars("do"), Chars("dos"), Chars("das"),
     Chars("e")}

\* the trailing tokens the affix stripper drops
SUFFIXES == {Chars("filho"), Chars("junior"), Chars("neto")}

\* the leading tokens the affix stripper drops: the titles of the matcher
TITLE == Range(TITLES)

StrictKey(name) == normalize_name(name)

\* str.split() of a normalized string
RECURSIVE split(_)
split(str) ==
    LET t == lstrip(str)
        word == {j \in 1..Len(t) : \A h \in 1..j : ~IsSpace(t[h])}
    IN IF t = <<>> THEN <<>>
       ELSE <<SubSeq(t, 1, Cardinality(word))>>
            \o split(SubSeq(t, Cardinality(word) + 1, Len(t)))

RECURSIVE strip_titles(_)
strip_titles(tokens) ==
    IF tokens # <<>> /\ Head(tokens) \in TITLE
    THEN strip_titles(Tail(tokens))
    ELSE tokens

RECURSIVE strip_suffixes(_)
strip_suffixes(tokens) ==
    IF tokens # <<>> /\ tokens[Len(tokens)] \in SUFFIXES
    THEN strip_suffixes(SubSeq(tokens, 1, Len(tokens) - 1))
    ELSE tokens

\* tokenize, drop the stopwords, strip the titles, then the suffixes
StrippedTokens(name) ==
    strip_suffixes(strip_titles(
        SelectSeq(split(StrictKey(name)), LAMBDA w : w \notin STOPWORDS)))

\* " ".join(tokens)
RECURSIVE join(_)
join(tokens) ==
    IF tokens = <<>> THEN <<>>
    ELSE IF Len(tokens) = 1 THEN tokens[1]
    ELSE tokens[1] \o <<" ">> \o join(Tail(tokens))

LooseKey(name) == join(StrippedTokens(name))

FinalToken(name) ==
    LET tokens == StrippedTokens(name)
    IN IF tokens = <<>> THEN <<>> ELSE tokens[Len(tokens)]

-----------------------------------------------------------------------------
(* Claims *)

\* an iteration of the loop of match_assinantes has run: n and dep are its
\* signer and what it resolved to
Iterated == pc \in {"loop", "matched"} /\ i > 1

\* the signer of that iteration, as parse_assinantes returned it
Signer == assinantes_list[i - 1]

\* the roster entries whose StrictKey is that of name
StrictHits(name) == {d \in Range(deps) : key(d) = StrictKey(name)}

\* the roster entries whose LooseKey is that of name
LooseHits(name) == {d \in Range(deps) : LooseKey(d.nome) = LooseKey(name)}

\* the roster entries the signers resolve to, without those that resolve to
\* none, and their ids
Resolved ==
    LET all == {lookup(idx, normalize_name(assinantes_raw[j])) :
                    j \in 1..Len(assinantes_raw)}
    IN {d \in all : d # NoDep}

ResolvedIds == {d.id : d \in Resolved}

Ids(rows) == {rows[a].id : a \in 1..Len(rows)}

DistinctIds(rows) ==
    \A a, b \in 1..Len(rows) : a # b => rows[a].id # rows[b].id

\* C1: a signer whose StrictKey is that of several roster entries with
\* distinct ids is credited to none of them.
C1_AmbiguousStrictNotCredited ==
    Iterated =>
        ((\E a, b \in StrictHits(Signer) : a.id # b.id)
            => \A d \in StrictHits(Signer) : dep # d)

\* C2: the matched population holds each roster id at most once, and as many
\* rows as the signers resolved to distinct ids.
C2_MatchedIdsOnce ==
    /\ pc = "loop" =>
          /\ DistinctIds(found)
          /\ i > 1 /\ dep # NoDep => dep.id \in Ids(found)
    /\ pc = "matched" =>
          /\ DistinctIds(df_assinou)
          /\ Ids(df_assinou) = ResolvedIds
          /\ Len(df_assinou) = Cardinality(ResolvedIds)

\* C2: two signers of different spelling resolved to the same roster id, which
\* is one row of the matched table.
C2_Witness ==
    /\ pc = "matched"
    /\ Len(df_assinou) = 1
    /\ Len(assinantes_raw) = 2
    /\ lookup(idx, normalize_name(assinantes_raw[1])) # NoDep
    /\ lookup(idx, normalize_name(assinantes_raw[2])) # NoDep

\* C3: a signer with no strict hit whose LooseKey is that of two roster entries
\* is ambiguous: credited to no entry and not listed as unmatched.
C3_LooseAmbiguous ==
    Iterated =>
        ((/\ StrictHits(Signer) = {}
          /\ \E a, b \in LooseHits(Signer) : a.id # b.id)
            => /\ dep = NoDep
               /\ \A a \in 1..Len(nao_encontrados) : nao_encontrados[a] # n)

\* C4: a signer with a strict hit is matched to an entry of its StrictKey, and
\* a signer with no strict hit is matched to the one roster entry of its
\* LooseKey when there is exactly one.
C4_StrictThenLoose ==
    Iterated =>
        /\ StrictHits(Signer) # {} => \E d \in StrictHits(Signer) : dep = d
        /\ StrictHits(Signer) = {} =>
              \A d \in LooseHits(Signer) : LooseHits(Signer) = {d} => dep = d

\* a line the noise filter drops: blank, or of a StrictKey in the blacklist
NoiseLine(ln) ==
    LET k == normalize_name(ln) IN k = <<>> \/ k \in STOPWORDS_LINHAS

\* C5: no blank or blacklisted line is in the list parse_assinantes returns,
\* is a signer the loop of match_assinantes resolves or is in the unmatched
\* list, and the parsed list is the one the text without those lines gives.
C5_NoiseNeverInResult ==
    /\ pc = "match_assinantes" =>
          /\ \A a \in 1..Len(assinantes_list) : ~NoiseLine(assinantes_list[a])
          /\ assinantes_list =
                parse_assinantes(SelectSeq(assinantes_text, LAMBDA ln : ~NoiseLine(ln)))
    /\ pc = "loop" /\ i > 1 => ~NoiseLine(n)
    /\ pc = "matched" =>
          \A a \in 1..Len(nao_encontrados) : ~NoiseLine(nao_encontrados[a])

\* C5: a text with a blacklisted line and a name has been matched.
C5_Witness ==
    /\ pc = "matched"
    /\ \E a \in 1..Len(assinantes_text) :
          normalize_name(assinantes_text[a]) \in STOPWORDS_LINHAS
    /\ Len(assinantes_list) = 1

\* C6: the list parse_assinantes returns has no two entries of one StrictKey,
\* each entry is the first line of the text with its StrictKey (without the
\* whitespace around it), and the entries are in the order of those lines.
C6_DedupKeepsFirst ==
    pc = "match_assinantes" =>
        LET text_key == Tuple([j \in 1..Len(assinantes_text) |->
                                  normalize_name(assinantes_text[j])])
            list_key == Tuple([a \in 1..Len(assinantes_list) |->
                                  normalize_name(assinantes_list[a])])
            lines_of(a) == {j \in 1..Len(assinantes_text) : text_key[j] = list_key[a]}
            first(a) == CHOOSE j \in lines_of(a) : \A h \in lines_of(a) : j <= h
        IN /\ \A a, b \in 1..Len(assinantes_list) : a # b => list_key[a] # list_key[b]
           /\ \A a \in 1..Len(assinantes_list) :
                 /\ lines_of(a) # {}
                 /\ assinantes_list[a] = strip(assinantes_text[first(a)])
           /\ \A a, b \in 1..Len(assinantes_list) : a < b => first(a) < first(b)

\* C6: two lines of different spelling and one StrictKey gave one entry, the
\* first of them.
C6_Witness ==
    /\ pc = "match_assinantes"
    /\ Len(assinantes_text) = 2
    /\ assinantes_text[1] # assinantes_text[2]
    /\ strip(assinantes_text[1]) # strip(assinantes_text[2])
    /\ normalize_name(assinantes_text[1]) = normalize_name(assinantes_text[2])
    /\ assinantes_list = <<strip(assinantes_text[1])>>

\* sub is a subsequence of full, in its order
IsSubsequence(sub, full) ==
    \E f \in [1..Len(sub) -> 1..Len(full)] :
        /\ \A a \in 1..Len(sub) : sub[a] = full[f[a]]
        /\ \A a, b \in 1..Len(sub) : a < b => f[a] < f[b]

\* C7: the unmatched list is a subsequence of the parsed signer list, each
\* signer in the spelling it was entered in.
C7_UnmatchedOriginalSpelling ==
    pc = "matched" => IsSubsequence(nao_encontrados, assinantes_list)

\* C8: a signer is credited only to a roster entry of its final stripped token.
C8_SurnameAnchor ==
    (pc = "loop" /\ i > 1 /\ dep # NoDep)
        => FinalToken(Signer) = FinalToken(dep.nome)

\* C8: a signer was credited to an entry whose StrictKey is not its own.
C8_Witness ==
    /\ pc = "loop"
    /\ i > 1
    /\ dep # NoDep
    /\ key(dep) # StrictKey(Signer)

\* C9: the title strip of the matcher is idempotent: a key it has stripped is
\* left as it is by a second strip.
C9_TitleStripIdempotent ==
    Iterated =>
        strip_title(strip_title(normalize_name(n))) = strip_title(normalize_name(n))

-----------------------------------------------------------------------------
(* normalize_name, word by word *)

\* what a character leaves in a word: a letter or digit its lowercase,
\* unaccented letter, any other character nothing
Fold(c) ==
    CASE c \in Range(LowerCase) \cup Range(Digits) -> <<c>>
      [] c \in Range(UpperCase) -> <<Lower(c)>>
      [] c \in {"U+00C1", "U+00E1"} -> <<"a">>
      [] OTHER -> <<>>

\* what the characters of a word leave, in their order
RECURSIVE FoldWord(_)
FoldWord(word) ==
    IF word = <<>> THEN <<>> ELSE Fold(Head(word)) \o FoldWord(Tail(word))

\* the words of str, folded, without the empty ones, joined by single spaces
WordsFolded(str) ==
    LET words == split(str)
        folded == Tuple([j \in 1..Len(words) |-> FoldWord(words[j])])
    IN join(SelectSeq(folded, LAMBDA w : w # <<>>))

\* str with a space for each character that is no letter, digit, whitespace
\* or combining mark
Spaced(str) ==
    Tuple([j \in 1..Len(str) |->
              IF Fold(str[j]) = <<>> /\ ~Combining(str[j]) THEN " " ELSE str[j]])

\* C10 as stated: a character that is neither alphanumeric nor whitespace is
\* replaced by a space, so it separates the letters around it.
C10_PunctuationBecomesSpace ==
    r # Pending => r = WordsFolded(Spaced(IF s = None THEN <<>> ELSE s))

\* C10 amended: a character that is neither alphanumeric nor whitespace is
\* deleted, so the letters around it join; the result is lowercase,
\* accent-free, single-spaced and trimmed, and empty for None and "".
C10_PunctuationDeleted ==
    r # Pending =>
        /\ r = WordsFolded(IF s = None THEN <<>> ELSE s)
        /\ \A j \in 1..Len(r) :
              /\ r[j] \in Range(LowerCase) \cup Range(Digits) \cup {" "}
              /\ r[j] = " " => j \notin {1, Len(r)} /\ r[j + 1] # " "
        /\ s \in {None, <<>>} => r = <<>>

\* C10: "Dr.Frederico" was normalized to "drfrederico".
C10_Witness ==
    /\ s = Chars("Dr.Frederico")
    /\ r = Chars("drfrederico")

\* C11: normalize_name is idempotent: applied to its own result, it returns
\* that result, for every string x.
C11_Idempotent ==
    r2 # Pending => r2 = r

\* C11: "B<TAB><U+00C1>", which normalize_name changes, was normalized to
\* "b a", and "b a" was normalized to "b a".
C11_Witness ==
    /\ s = <<"B", "\t", "U+00C1">>
    /\ r = Chars("b a")
    /\ r2 = Chars("b a")

\* the calls of requests.get that raised
Failed(c) == c.fn = "requests.get" /\ c.err # NoError

\* the calls of requests.get that returned a payload
Succeeded(c) == c.fn = "requests.get" /\ c.err = NoError

\* the number of calls of requests.get among the first j calls
GetsUpTo(j) == Len(SelectSeq(SubSeq(calls, 1, j), LAMBDA c : c.fn = "requests.get"))

AllFailed == Len(SelectSeq(calls, Failed)) = 3

Terminated == pc \in {"returned", "raised"}

C12_Safe ==
    /\ GetsUpTo(Len(calls)) <= 3
    /\ \A j \in 1..Len(calls) :
          /\ Succeeded(calls[j]) =>
                j = Len(calls) /\ pc = "returned" /\ data = calls[j].json
          /\ Failed(calls[j]) =>
                IF j = Len(calls) THEN pc = "time.sleep"
                ELSE /\ calls[j + 1].fn = "time.sleep"
                     /\ calls[j + 1].tenths = 6 * GetsUpTo(j)
    /\ pc = "returned" =>
          /\ calls # <<>> /\ Succeeded(calls[Len(calls)])
          /\ raised = NoError
    /\ pc = "raised" <=> raised # NoError
    /\ pc = "raised" =>
          /\ AllFailed
          /\ calls[Len(calls)].fn = "time.sleep"
          /\ calls[Len(calls)].tenths = 18
          /\ data = NoData
    /\ AllFailed => pc \in {"time.sleep", "raise", "raised"}

\* C12: a call of requests_get_json issues at most 3 requests, returns the
\* payload of the first that succeeds and issues none after it, sleeps after
\* every request that failed (the third too, before the error), raises
\* RuntimeError exactly when 3 requests failed, and always ends.
C12_BoundedRetry ==
    /\ []C12_Safe
    /\ AllFailed ~> pc = "raised"
    /\ <>Terminated

\* C12: three requests failed, each followed by its sleep of 0.6, 1.2 and 1.8
\* seconds, and RuntimeError was raised.
C12_Witness ==
    /\ pc = "raised"
    /\ Len(calls) = 6
    /\ \A j \in 1..3 : Failed(calls[2 * j - 1]) /\ calls[2 * j] = SleepCall(6 * j)
    /\ raised = "RuntimeError: Falha ao acessar API da Camara: Timeout"

\* C13: when the ids of the roster are pairwise distinct, every id of the
\* roster is in exactly one of the matched table and the not-signed table,
\* the tables hold no other id and no id twice, and the count
\* nao_assinou_n = total_api - assinou_n is the number of rows of the
\* not-signed table.
C13_TablesPartitionRoster ==
    pc = "counted" /\ DistinctIds(deps) =>
        /\ \A a \in 1..Len(deps) :
              deps[a].id \in Ids(df_assinou) <=> deps[a].id \notin Ids(df_nao_assinou)
        /\ Ids(df_assinou) \cup Ids(df_nao_assinou) \subseteq Ids(deps)
        /\ DistinctIds(df_assinou) /\ DistinctIds(df_nao_assinou)
        /\ total_api = Len(deps)
        /\ assinou_n = Len(df_assinou)
        /\ nao_assinou_n = total_api - assinou_n
        /\ nao_assinou_n = Len(df_nao_assinou)

\* C13: of a roster of two deputies with distinct ids, one is in the matched
\* table and the other in the not-signed table.
C13_Witness ==
    /\ pc = "counted"
    /\ Len(deps) = 2 /\ DistinctIds(deps)
    /\ Ids(df_assinou) = {2}
    /\ Ids(df_nao_assinou) = {1}
    /\ nao_assinou_n = 1

====
